---- MODULE Spec2Model ----
(***************************************************************************)
(* Model of src/src/Schedule.cpp: the reference-counted schedule record   *)
(* (ScheduleContents), the Schedule handle and its accessors,              *)
(* add_specialization, add_wrapper, deep_copy, mutate and accept.          *)
(*                                                                         *)
(* Heap objects are identified by their index in a sequence: recs holds    *)
(* the ScheduleContents objects, rdoms the reduction-domain contents and   *)
(* funcs the FunctionContents (stage) objects.  An IntrusivePtr is an      *)
(* index, 0 being the undefined pointer.                                   *)
(***************************************************************************)
EXTENDS Integers, Sequences, FiniteSets, TLC

VARIABLES recs, rdoms, funcs, contents, copied_map, diag, visited, calls

vars == <<recs, rdoms, funcs, contents, copied_map, diag, visited, calls>>

(***************************************************************************)
(* Bounds of the model.                                                    *)
(***************************************************************************)
MaxCalls == 3
MaxWrapperCalls == 4
MaxTraverseCalls == 4
MaxRecs == 8
MaxFuncs == 4
MaxRDoms == 3
MaxSplits == 2
MaxBounds == 2
MaxDims == 2
MaxSpecs == 2
ExprMod == 3

(***************************************************************************)
(* Expressions.  An Expr is an IntrusivePtr to an immutable IR node: the   *)
(* model keeps its value, a number, or Undef for the undefined Expr.       *)
(***************************************************************************)
Undef == -1
Exprs == 0 .. ExprMod
Sentinel == ExprMod
E0 == 1
NewExprs == {Undef, E0}
NewBounds == {<<E0, E0>>, <<Undef, E0>>, <<E0, Undef>>}

defined(e) == e # Undef

Transforms == {"identity", "sentinel", "incr"}

\* IRMutator::mutate(Expr) for the three mutators the model passes in.
IRMutator_mutate(t, e) ==
    CASE t = "identity" -> e
      [] t = "sentinel" -> Sentinel
      [] t = "incr" -> (e + 1) % ExprMod

Vars == <<"x", "y", "z">>
WrapperNames == <<"", "f">>
WrapperKeys == {WrapperNames[i] : i \in DOMAIN WrapperNames}
Handles == {1, 2}
InitialFuncs == {1, 2}

(***************************************************************************)
(* ScheduleContents(): the default-constructed record.                     *)
(***************************************************************************)
NoWrappers == [n \in WrapperKeys |-> 0]

ScheduleContents ==
    [store_level |-> "inline", compute_level |-> "inline",
     splits |-> <<>>, dims |-> <<>>, storage_dims |-> <<>>, bounds |-> <<>>,
     specializations |-> <<>>, wrappers |-> NoWrappers, reduction_domain |-> 0,
     memoized |-> FALSE, touched |-> FALSE, allow_race_conditions |-> FALSE]

Init ==
    /\ recs = [f \in InitialFuncs |-> ScheduleContents]
    /\ rdoms = <<>>
    /\ funcs = [f \in InitialFuncs |-> [schedule |-> f]]
    /\ contents = [h \in Handles |-> 1]
    /\ copied_map = <<>>
    /\ diag = <<>>
    /\ visited = <<>>
    /\ calls = 0

\* A call of the Schedule interface.  calls counts them, diag is the
\* diagnostic of the most recent call and visited what the most recent
\* accept presented to its visitor.
Call(d) ==
    /\ calls' = calls + 1
    /\ diag' = d
    /\ visited' = <<>>

\* Handle operations leave the heap alone.
NoCall ==
    /\ diag' = <<>>
    /\ visited' = <<>>
    /\ UNCHANGED calls

(***************************************************************************)
(* Handle copy (Schedule S2 = S): the IntrusivePtr is copied.              *)
(***************************************************************************)
HandleCopy(h, h2) ==
    /\ h # h2
    /\ h2 # 1
    /\ contents[h2] # contents[h]
    /\ contents' = [contents EXCEPT ![h2] = contents[h]]
    /\ NoCall
    /\ UNCHANGED <<recs, rdoms, funcs, copied_map>>

(***************************************************************************)
(* Schedule(IntrusivePtr<ScheduleContents>): a handle on the nested record *)
(* of the i-th specialization, and a handle on the schedule a stage owns.  *)
(***************************************************************************)
HandleOfSpecialization(h, i, h2) ==
    /\ h2 # 1
    /\ i \in DOMAIN recs[contents[h]].specializations
    /\ contents[h2] # recs[contents[h]].specializations[i].schedule
    /\ contents' = [contents EXCEPT ![h2] = recs[contents[h]].specializations[i].schedule]
    /\ NoCall
    /\ UNCHANGED <<recs, rdoms, funcs, copied_map>>

(***************************************************************************)
(* Mutable accessors: the caller writes through the returned reference.    *)
(***************************************************************************)
\* A write that lands in the record and in the nested records of its
\* specializations, as if they shared the storage of the field.
Write_shared(h, field, value) ==
    /\ recs' = [r \in DOMAIN recs |->
                    IF \/ r = contents[h]
                       \/ \E i \in DOMAIN recs[contents[h]].specializations :
                              recs[contents[h]].specializations[i].schedule = r
                    THEN [recs[r] EXCEPT ![field] = value]
                    ELSE recs[r]]
    /\ Call(<<>>)
    /\ UNCHANGED <<rdoms, funcs, contents, copied_map>>

Write(h, field, value) ==
    /\ recs' = [recs EXCEPT ![contents[h]][field] = value]
    /\ Call(<<>>)
    /\ UNCHANGED <<rdoms, funcs, contents, copied_map>>

splits_push(h, f) ==
    LET old == recs[contents[h]].splits IN
    /\ Len(old) < MaxSplits
    /\ Write(h, "splits", Append(old, [old_var |-> Vars[Len(old) + 1], factor |-> f]))

splits_set_factor(h, i, f) ==
    LET old == recs[contents[h]].splits IN
    /\ i \in DOMAIN old
    /\ old[i].factor # f
    /\ Write(h, "splits", [old EXCEPT ![i].factor = f])

dims_push(h) ==
    LET old == recs[contents[h]].dims IN
    /\ Len(old) < MaxDims
    /\ Write(h, "dims", Append(old, Vars[Len(old) + 1]))

storage_dims_push(h) ==
    LET old == recs[contents[h]].storage_dims IN
    /\ Len(old) < MaxDims
    /\ Write(h, "storage_dims", Append(old, Vars[Len(old) + 1]))

bounds_push(h, mn, ex) ==
    LET old == recs[contents[h]].bounds IN
    /\ Len(old) < MaxBounds
    /\ Write(h, "bounds", Append(old, [var |-> Vars[Len(old) + 1], min |-> mn, extent |-> ex]))

store_level_set(h) ==
    /\ recs[contents[h]].store_level = "inline"
    /\ Write(h, "store_level", "root")

compute_level_set(h) ==
    /\ recs[contents[h]].compute_level = "inline"
    /\ Write(h, "compute_level", "root")

memoized_set(h) ==
    /\ ~recs[contents[h]].memoized
    /\ Write(h, "memoized", TRUE)

touched_set(h) ==
    /\ ~recs[contents[h]].touched
    /\ Write(h, "touched", TRUE)

allow_race_conditions_set(h) ==
    /\ ~recs[contents[h]].allow_race_conditions
    /\ Write(h, "allow_race_conditions", TRUE)

(***************************************************************************)
(* Schedule::set_reduction_domain(d).  d is a ReductionDomain handle the   *)
(* caller holds: the undefined one (0), one already in use, or one it has  *)
(* just created (the next free index, predicate E0).                       *)
(***************************************************************************)
set_reduction_domain(h, d) ==
    /\ d \in 0 .. (Len(rdoms) + 1)
    /\ d <= MaxRDoms
    /\ d # recs[contents[h]].reduction_domain
    /\ rdoms' = IF d = Len(rdoms) + 1 THEN Append(rdoms, [predicate |-> E0]) ELSE rdoms
    /\ recs' = [recs EXCEPT ![contents[h]].reduction_domain = d]
    /\ Call(<<>>)
    /\ UNCHANGED <<funcs, contents, copied_map>>

(***************************************************************************)
(* Schedule::add_specialization(condition)                                 *)
(***************************************************************************)
add_specialization_record(c) ==
    [ScheduleContents EXCEPT
        !.store_level = c.store_level,
        !.compute_level = c.compute_level,
        !.splits = c.splits,
        !.dims = c.dims,
        !.storage_dims = c.storage_dims,
        !.bounds = c.bounds,
        !.reduction_domain = c.reduction_domain,
        !.memoized = c.memoized,
        !.touched = c.touched,
        !.allow_race_conditions = c.allow_race_conditions]

add_specialization(h, condition) ==
    LET r == contents[h]
        n == Len(recs) + 1
    IN
    /\ n <= MaxRecs
    /\ Len(recs[r].specializations) < MaxSpecs
    /\ recs' = Append([recs EXCEPT ![r].specializations =
                           Append(@, [condition |-> condition, schedule |-> n])],
                      add_specialization_record(recs[r]))
    /\ Call(<<>>)
    /\ UNCHANGED <<rdoms, funcs, contents, copied_map>>

(***************************************************************************)
(* Schedule::add_wrapper(f, wrapper).  user_warning reports and returns;   *)
(* internal_error does not return, so the assignment is not reached.       *)
(***************************************************************************)
\* internal_error reports and unwinds out of the call: it does not return.
internal_error_returns == FALSE

add_wrapper_outcome(w, f) ==
    IF w[f] # 0
    THEN IF f = "" THEN <<"warning">> ELSE <<"fatal">>
    ELSE <<>>

\* The assignment of line 218 reached on every path.
add_wrapper_map_always(w, f, wrapper) ==
    [w EXCEPT ![f] = wrapper]

add_wrapper_map(w, f, wrapper) ==
    IF add_wrapper_outcome(w, f) = <<"fatal">> /\ ~internal_error_returns THEN w ELSE [w EXCEPT ![f] = wrapper]

add_wrapper(r, f, wrapper) ==
    LET w == recs[r].wrappers IN
    /\ wrapper \in DOMAIN funcs
    /\ recs' = [recs EXCEPT ![r].wrappers = add_wrapper_map(w, f, wrapper)]
    /\ Call(add_wrapper_outcome(w, f))
    /\ UNCHANGED <<rdoms, funcs, contents, copied_map>>

(***************************************************************************)
(* ReductionDomain::mutate and ReductionDomain::deep_copy.  The domain is  *)
(* a reference-counted handle on contents the mutator rewrites in place.   *)
(***************************************************************************)
ReductionDomain_mutate(st, d, t) ==
    IF d = 0 THEN st
    ELSE [st EXCEPT !.rdoms[d].predicate = IF defined(@) THEN IRMutator_mutate(t, @) ELSE @,
                    !.trace = Append(@, <<d, "rdom", 1>>)]

(***************************************************************************)
(* ScheduleContents::mutate(mutator).  st = [recs, rdoms, trace]; trace    *)
(* lists, in order, the expression fields handed to the mutator.           *)
(***************************************************************************)
RECURSIVE mutate_splits(_, _, _, _)
mutate_splits(st, r, i, t) ==
    IF i > Len(st.recs[r].splits) THEN st
    ELSE IF defined(st.recs[r].splits[i].factor)
         THEN mutate_splits([st EXCEPT !.recs[r].splits[i].factor = IRMutator_mutate(t, @),
                                       !.trace = Append(@, <<r, "factor", i>>)], r, i + 1, t)
         ELSE mutate_splits(st, r, i + 1, t)

mutate_bound_min(st, r, i, t) ==
    IF defined(st.recs[r].bounds[i].min)
    THEN [st EXCEPT !.recs[r].bounds[i].min = IRMutator_mutate(t, @),
                    !.trace = Append(@, <<r, "min", i>>)]
    ELSE st

\* A traversal that leaves the extent out.
mutate_bound_extent_skipped(st, r, i, t) == st

mutate_bound_extent(st, r, i, t) ==
    IF defined(st.recs[r].bounds[i].extent)
    THEN [st EXCEPT !.recs[r].bounds[i].extent = IRMutator_mutate(t, @),
                    !.trace = Append(@, <<r, "extent", i>>)]
    ELSE st

RECURSIVE mutate_bounds(_, _, _, _)
mutate_bounds(st, r, i, t) ==
    IF i > Len(st.recs[r].bounds) THEN st
    ELSE mutate_bounds(mutate_bound_extent(mutate_bound_min(st, r, i, t), r, i, t), r, i + 1, t)

mutate_condition(st, r, i, t) ==
    IF defined(st.recs[r].specializations[i].condition)
    THEN [st EXCEPT !.recs[r].specializations[i].condition = IRMutator_mutate(t, @),
                    !.trace = Append(@, <<r, "condition", i>>)]
    ELSE st

RECURSIVE ScheduleContents_mutate(_, _, _)
RECURSIVE mutate_specializations(_, _, _, _)

mutate_specializations(st, r, i, t) ==
    IF i > Len(st.recs[r].specializations) THEN st
    ELSE mutate_specializations(
             ScheduleContents_mutate(mutate_condition(st, r, i, t),
                                     st.recs[r].specializations[i].schedule, t),
             r, i + 1, t)

ScheduleContents_mutate(st, r, t) ==
    LET s1 == mutate_splits(st, r, 1, t)
        s2 == mutate_bounds(s1, r, 1, t)
        s3 == mutate_specializations(s2, r, 1, t)
    IN ReductionDomain_mutate(s3, s3.recs[r].reduction_domain, t)

\* Schedule::mutate(mutator)
mutate(h, t) ==
    LET st == ScheduleContents_mutate([recs |-> recs, rdoms |-> rdoms, trace |-> <<>>],
                                      contents[h], t)
    IN
    /\ contents[h] # 0
    /\ recs' = st.recs
    /\ rdoms' = st.rdoms
    /\ Call(<<>>)
    /\ UNCHANGED <<funcs, contents, copied_map>>

(***************************************************************************)
(* Schedule::accept(visitor).  s.condition.accept(visitor) is called       *)
(* without a defined() test: on an undefined condition it dereferences a   *)
(* null pointer, which either ends the program ("crash") or is compiled    *)
(* to nothing ("skip").  st = [trace, diag].                               *)
(***************************************************************************)
RECURSIVE accept_splits(_, _, _)
accept_splits(st, r, i) ==
    IF i > Len(recs[r].splits) THEN st
    ELSE accept_splits(IF defined(recs[r].splits[i].factor)
                       THEN [st EXCEPT !.trace = Append(@, <<r, "factor", i>>)]
                       ELSE st, r, i + 1)

accept_bound(st, r, i) ==
    LET s1 == IF defined(recs[r].bounds[i].min)
              THEN [st EXCEPT !.trace = Append(@, <<r, "min", i>>)] ELSE st
    IN IF defined(recs[r].bounds[i].extent)
       THEN [s1 EXCEPT !.trace = Append(@, <<r, "extent", i>>)] ELSE s1

RECURSIVE accept_bounds(_, _, _)
accept_bounds(st, r, i) ==
    IF i > Len(recs[r].bounds) THEN st
    ELSE accept_bounds(accept_bound(st, r, i), r, i + 1)

RECURSIVE accept_specializations(_, _, _, _)
accept_specializations(st, r, i, ub) ==
    IF i > Len(recs[r].specializations) \/ st.diag = <<"crash">> THEN st
    ELSE IF defined(recs[r].specializations[i].condition)
         THEN accept_specializations([st EXCEPT !.trace = Append(@, <<r, "condition", i>>)],
                                     r, i + 1, ub)
         ELSE IF ub = "crash" THEN [st EXCEPT !.diag = <<"crash">>]
              ELSE accept_specializations(st, r, i + 1, ub)

Schedule_accept(r, ub) ==
    accept_specializations(
        accept_bounds(accept_splits([trace |-> <<>>, diag |-> <<>>], r, 1), r, 1),
        r, 1, ub)

accept(h, ub) ==
    LET st == Schedule_accept(contents[h], ub) IN
    /\ calls' = calls + 1
    /\ diag' = st.diag
    /\ visited' = st.trace
    /\ UNCHANGED <<recs, rdoms, funcs, contents, copied_map>>

(***************************************************************************)
(* Deep copy.  st = [recs, rdoms, funcs, map, ret, overflow]: the heap,    *)
(* the DeepCopyMap (map[f] = 0 when f has no defined entry), the pointer   *)
(* the last helper call produced, and whether the call stack ran out.      *)
(***************************************************************************)
MapGet(m, f) == IF f \in DOMAIN m THEN m[f] ELSE 0

\* ReductionDomain::deep_copy()
ReductionDomain_deep_copy(st, d) ==
    IF d = 0 THEN [st EXCEPT !.ret = 0]
    ELSE [st EXCEPT !.rdoms = Append(@, st.rdoms[d]), !.ret = Len(st.rdoms) + 1]

\* Lines 82-92: the new record and the fields copied by value.
deep_copy_fields(c, rd) ==
    [ScheduleContents EXCEPT
        !.store_level = c.store_level,
        !.compute_level = c.compute_level,
        !.splits = c.splits,
        !.dims = c.dims,
        !.storage_dims = c.storage_dims,
        !.bounds = c.bounds,
        !.reduction_domain = rd,
        !.memoized = c.memoized,
        !.touched = c.touched,
        !.allow_race_conditions = c.allow_race_conditions]

\* A copy that hands back the source pointer instead of a new record.
deep_copy_schedule_contents_shallow(st, src, fuel) ==
    [st EXCEPT !.ret = src]

RECURSIVE deep_copy_schedule_contents_helper(_, _, _)
RECURSIVE deep_copy_function_contents_helper(_, _, _)
RECURSIVE deep_copy_wrappers(_, _, _, _, _)
RECURSIVE deep_copy_specializations(_, _, _, _, _)

\* The stage-level clone: a new FunctionContents whose schedule is the deep
\* copy, with the same map, of the source stage's schedule.  fuel is the
\* number of stage frames the call stack still has room for.
deep_copy_function_contents_helper(st, f, fuel) ==
    IF fuel = 0 THEN [st EXCEPT !.overflow = TRUE]
    ELSE LET n == Len(st.funcs) + 1
             s1 == deep_copy_schedule_contents_helper(
                       [st EXCEPT !.funcs = Append(@, [schedule |-> 0])],
                       st.funcs[f].schedule, fuel - 1)
         IN IF s1.overflow THEN s1
            ELSE [s1 EXCEPT !.funcs[n].schedule = s1.ret, !.ret = n]

\* The loop body without the look-up in the map: every entry is cloned.
deep_copy_wrapper_unshared(st, dst, name, w, fuel) ==
    LET s1 == deep_copy_function_contents_helper(st, w, fuel)
    IN IF s1.overflow THEN s1
       ELSE [s1 EXCEPT !.recs[dst].wrappers[name] = s1.ret,
                       !.map = [g \in DOMAIN @ \cup {w} |->
                                   IF g = w THEN s1.ret ELSE @[g]]]

\* One iteration of the loop of lines 97-105, for the i-th wrapper name.
deep_copy_wrapper(st, dst, name, w, fuel) ==
    IF MapGet(st.map, w) # 0
    THEN [st EXCEPT !.recs[dst].wrappers[name] = MapGet(st.map, w)]
    ELSE LET s1 == deep_copy_function_contents_helper(st, w, fuel)
         IN IF s1.overflow THEN s1
            ELSE [s1 EXCEPT !.recs[dst].wrappers[name] = s1.ret,
                            !.map = [g \in DOMAIN @ \cup {w} |->
                                        IF g = w THEN s1.ret ELSE @[g]]]

deep_copy_wrappers(st, dst, src, i, fuel) ==
    IF i > Len(WrapperNames) \/ st.overflow THEN st
    ELSE IF st.recs[src].wrappers[WrapperNames[i]] = 0
         THEN deep_copy_wrappers(st, dst, src, i + 1, fuel)
         ELSE deep_copy_wrappers(
                  deep_copy_wrapper(st, dst, WrapperNames[i],
                                    st.recs[src].wrappers[WrapperNames[i]], fuel),
                  dst, src, i + 1, fuel)

\* A copy of the specialization that keeps the source's nested record.
deep_copy_specialization_shared(st, dst, s, fuel) ==
    [st EXCEPT !.recs[dst].specializations = Append(@, s)]

\* One iteration of the loop of lines 109-115.
deep_copy_specialization(st, dst, s, fuel) ==
    LET s1 == deep_copy_schedule_contents_helper(st, s.schedule, fuel)
    IN IF s1.overflow THEN s1
       ELSE [s1 EXCEPT !.recs[dst].specializations =
                           Append(@, [condition |-> s.condition, schedule |-> s1.ret])]

deep_copy_specializations(st, dst, src, i, fuel) ==
    IF i > Len(st.recs[src].specializations) \/ st.overflow THEN st
    ELSE deep_copy_specializations(
             deep_copy_specialization(st, dst, st.recs[src].specializations[i], fuel),
             dst, src, i + 1, fuel)

deep_copy_schedule_contents_helper(st, src, fuel) ==
    IF src = 0 THEN [st EXCEPT !.ret = 0]
    ELSE LET s1 == ReductionDomain_deep_copy(st, st.recs[src].reduction_domain)
             dst == Len(s1.recs) + 1
             s2 == [s1 EXCEPT !.recs = Append(@, deep_copy_fields(s1.recs[src], s1.ret))]
             s3 == deep_copy_wrappers(s2, dst, src, 1, fuel)
             s4 == deep_copy_specializations(s3, dst, src, 1, fuel)
         IN [s4 EXCEPT !.ret = dst]

\* A chain of nested stage clones longer than the number of stages clones
\* some stage while it is already being cloned, and then never ends: the
\* call stack has room for one frame per stage.
StackDepth == Len(funcs)

\* Schedule::deep_copy(copied_map), as  Schedule S2 = S.deep_copy(copied_map)
\* with a map the caller has just created.
Schedule_deep_copy(r) ==
    deep_copy_schedule_contents_helper(
        [recs |-> recs, rdoms |-> rdoms, funcs |-> funcs,
         map |-> [f \in DOMAIN funcs |-> 0], ret |-> 0, overflow |-> FALSE],
        r, StackDepth)

deep_copy(h, h2) ==
    LET st == Schedule_deep_copy(contents[h]) IN
    /\ h # h2
    /\ h2 # 1
    /\ IF st.overflow
       THEN /\ Call(<<"overflow">>)
            /\ UNCHANGED <<recs, rdoms, funcs, contents, copied_map>>
       ELSE /\ Len(st.recs) <= MaxRecs
            /\ Len(st.funcs) <= MaxFuncs
            /\ Len(st.rdoms) <= MaxRDoms
            /\ recs' = st.recs
            /\ rdoms' = st.rdoms
            /\ funcs' = st.funcs
            /\ copied_map' = st.map
            /\ contents' = [contents EXCEPT ![h2] = st.ret]
            /\ Call(<<>>)

\* The schedules add_wrapper is called on: those the handles refer to and
\* those the stages own.
Schedules == {contents[h] : h \in Handles} \cup {funcs[g].schedule : g \in DOMAIN funcs}

(***************************************************************************)
(* The operations.  Handle operations change no record; every other        *)
(* operation is a call, and a behaviour makes at most a bounded number of  *)
(* calls.                                                                  *)
(***************************************************************************)
HandleOps ==
    \/ \E h, h2 \in Handles : HandleCopy(h, h2)
    \/ \E h, h2 \in Handles, i \in 1 .. MaxSpecs : HandleOfSpecialization(h, i, h2)

FieldOps ==
    \/ \E h \in Handles, f \in NewExprs : splits_push(h, f)
    \/ \E h \in Handles, i \in 1 .. MaxSplits, f \in NewExprs : splits_set_factor(h, i, f)
    \/ \E h \in Handles : dims_push(h)
    \/ \E h \in Handles : storage_dims_push(h)
    \/ \E h \in Handles, b \in NewBounds : bounds_push(h, b[1], b[2])
    \/ \E h \in Handles : store_level_set(h)
    \/ \E h \in Handles : compute_level_set(h)
    \/ \E h \in Handles : memoized_set(h)
    \/ \E h \in Handles : touched_set(h)
    \/ \E h \in Handles : allow_race_conditions_set(h)
    \/ \E h \in Handles, d \in 0 .. MaxRDoms : set_reduction_domain(h, d)

SpecializationOps ==
    \E h \in Handles, c \in NewExprs : add_specialization(h, c)

WrapperOps ==
    \E r \in Schedules, f \in WrapperKeys, w \in 1 .. MaxFuncs : add_wrapper(r, f, w)

DeepCopyOps ==
    \E h, h2 \in Handles : deep_copy(h, h2)

TraverseOps ==
    \/ \E h \in Handles, t \in Transforms : mutate(h, t)
    \/ \E h \in Handles, ub \in {"crash", "skip"} : accept(h, ub)

Next ==
    \/ HandleOps
    \/ calls < MaxCalls /\ FieldOps
    \/ calls < MaxCalls /\ SpecializationOps
    \/ calls < MaxCalls /\ WrapperOps
    \/ calls < MaxCalls /\ DeepCopyOps
    \/ calls < MaxCalls /\ TraverseOps

Spec == Init /\ [][Next]_vars

\* The operations that build the wrapper graph and deep-copy it.
NextWrappers ==
    \/ HandleOps
    \/ calls < MaxWrapperCalls /\ SpecializationOps
    \/ calls < MaxWrapperCalls /\ WrapperOps
    \/ calls < MaxWrapperCalls /\ DeepCopyOps

SpecWrappers == Init /\ [][NextWrappers]_vars

\* The operations that place expressions in a schedule and traverse them.
NextTraverse ==
    \/ \E h, h2 \in Handles, i \in 1 .. MaxSpecs : HandleOfSpecialization(h, i, h2)
    \/ calls < MaxTraverseCalls /\ \E h \in Handles, f \in NewExprs : splits_push(h, f)
    \/ calls < MaxTraverseCalls /\ \E h \in Handles, b \in NewBounds : bounds_push(h, b[1], b[2])
    \/ calls < MaxTraverseCalls /\ \E h \in Handles, d \in 0 .. MaxRDoms : set_reduction_domain(h, d)
    \/ calls < MaxTraverseCalls /\ SpecializationOps
    \/ calls < MaxTraverseCalls /\ TraverseOps

SpecTraverse == Init /\ [][NextTraverse]_vars

(***************************************************************************)
(* Helpers of the properties.                                              *)
(***************************************************************************)
WritesSplits(h) ==
    \/ \E f \in NewExprs : splits_push(h, f)
    \/ \E i \in 1 .. MaxSplits, f \in NewExprs : splits_set_factor(h, i, f)

\* The records that are the nested record of some specialization, and the
\* records some stage owns.
NestedRecords ==
    UNION {{recs[r].specializations[i].schedule : i \in DOMAIN recs[r].specializations} :
              r \in DOMAIN recs}
StageRecords == {funcs[g].schedule : g \in DOMAIN funcs}

(***************************************************************************)
(* C1: a handle copy S2 = S refers to S's record, so a change of the       *)
(* splits made through one handle is the value read through every handle   *)
(* on the same record; S.deep_copy(map) returns a record that did not      *)
(* exist before, with S's splits, and a change of the splits made through  *)
(* a handle leaves the splits of every record another handle refers to     *)
(* unchanged.                                                              *)
(***************************************************************************)
C1_AliasVersusDeepCopy ==
    [][/\ \A h, h2 \in Handles :
            HandleCopy(h, h2) => contents'[h2] = contents[h] /\ recs' = recs
       /\ \A h \in Handles :
            WritesSplits(h) =>
                \A g \in Handles :
                    IF contents[g] = contents[h]
                    THEN /\ recs'[contents[g]].splits = recs'[contents[h]].splits
                         /\ recs'[contents[g]].splits # recs[contents[g]].splits
                    ELSE recs'[contents[g]].splits = recs[contents[g]].splits
       /\ \A h, h2 \in Handles :
            deep_copy(h, h2) /\ diag' = <<>> =>
                /\ contents'[h2] \notin DOMAIN recs
                /\ contents'[h] = contents[h]
                /\ recs'[contents'[h2]].splits = recs[contents[h]].splits
                /\ \A r \in DOMAIN recs : recs'[r] = recs[r]
      ]_vars

\* S2 is a deep copy of S whose splits were changed afterwards, on either side.
C1_Witness ==
    /\ contents[2] \notin NestedRecords \cup StageRecords \cup {contents[1]}
    /\ recs[contents[2]].splits # recs[contents[1]].splits

\* The record r and the nested records of its specializations, at every
\* depth, in the heap R.
RECURSIVE Tree(_, _)
Tree(R, r) ==
    {r} \cup UNION {Tree(R, R[r].specializations[i].schedule) :
                       i \in DOMAIN R[r].specializations}

(***************************************************************************)
(* C3: add_wrapper(name, stage) inserts the entry when name is absent;     *)
(* when name is "" and present it overwrites the entry and emits exactly   *)
(* one warning; when name is not "" and present it ends in a fatal error   *)
(* and leaves the wrapper map as it was.  Nothing else changes.            *)
(***************************************************************************)
C3_WrapperRedefinition ==
    [][\A r \in Schedules, f \in WrapperKeys, w \in 1 .. MaxFuncs :
          add_wrapper(r, f, w) =>
              LET old == recs[r].wrappers IN
              /\ \A q \in DOMAIN recs \ {r} : recs'[q] = recs[q]
              /\ recs'[r] = [recs[r] EXCEPT !.wrappers = recs'[r].wrappers]
              /\ old[f] = 0 =>
                    recs'[r].wrappers = [old EXCEPT ![f] = w] /\ diag' = <<>>
              /\ old[f] # 0 /\ f = "" =>
                    recs'[r].wrappers = [old EXCEPT ![f] = w] /\ diag' = <<"warning">>
              /\ old[f] # 0 /\ f # "" =>
                    recs'[r].wrappers = old /\ diag' = <<"fatal">>
      ]_vars

\* A second add_wrapper("f", ...) has just ended in the fatal error.
C3_Witness ==
    /\ diag = <<"fatal">>
    /\ \E r \in DOMAIN recs : recs[r].wrappers["f"] # 0

(***************************************************************************)
(* C4: a write through an accessor, set_reduction_domain or a further      *)
(* add_specialization on a record changes neither the nested record of any *)
(* specialization below it nor its link to it, and a change of a nested    *)
(* record leaves every record above it unchanged; no step of these changes *)
(* the contents of an existing reduction domain.                           *)
(***************************************************************************)
C4_SnapshotIsolation ==
    [][(FieldOps \/ SpecializationOps) =>
          /\ \A r \in DOMAIN recs :
                /\ \A n \in Tree(recs, r) \ {r} :
                      recs'[r] = recs[r] \/ recs'[n] = recs[n]
                /\ SubSeq(recs'[r].specializations, 1, Len(recs[r].specializations))
                       = recs[r].specializations
          /\ \A d \in DOMAIN rdoms : rdoms'[d] = rdoms[d]
      ]_vars

\* A specialization whose parent got a split after the snapshot and whose
\* nested record got a bound after it.
C4_Witness ==
    \E r \in DOMAIN recs : \E i \in DOMAIN recs[r].specializations :
        LET n == recs[r].specializations[i].schedule IN
        /\ recs[r].splits # <<>> /\ recs[n].splits = <<>>
        /\ recs[n].bounds # <<>> /\ recs[r].bounds = <<>>

(***************************************************************************)
(* C5: add_specialization(cond) appends one entry at the end of the        *)
(* specialization list, keeping the earlier entries, whose nested record   *)
(* is a new record equal to the parent's on every field but the            *)
(* specialization list - the wrapper map included - and whose own          *)
(* specialization list is empty.                                           *)
(***************************************************************************)
C5_SpecializationInheritsAll ==
    [][\A h \in Handles, c \in NewExprs :
          add_specialization(h, c) =>
              LET r == contents[h]
                  old == recs[r].specializations
                  new == recs'[r].specializations
                  n == new[Len(new)].schedule
              IN
              /\ Len(new) = Len(old) + 1
              /\ SubSeq(new, 1, Len(old)) = old
              /\ new[Len(new)].condition = c
              /\ n \notin DOMAIN recs
              /\ recs'[n] = [recs[r] EXCEPT !.specializations = <<>>]
      ]_vars

(***************************************************************************)
(* C9: deep_copy returns a record whose specializations are, in the same   *)
(* order, the source's conditions with nested records equal by value to    *)
(* the source's at every depth; every record of the clone is a new record  *)
(* and the source's records are unchanged; and setting a split factor      *)
(* through a handle changes no record but the one the handle refers to.    *)
(***************************************************************************)
RECURSIVE EqualByValue(_, _, _)
EqualByValue(R, a, b) ==
    /\ R[a].store_level = R[b].store_level
    /\ R[a].compute_level = R[b].compute_level
    /\ R[a].splits = R[b].splits
    /\ R[a].dims = R[b].dims
    /\ R[a].storage_dims = R[b].storage_dims
    /\ R[a].bounds = R[b].bounds
    /\ R[a].memoized = R[b].memoized
    /\ R[a].touched = R[b].touched
    /\ R[a].allow_race_conditions = R[b].allow_race_conditions
    /\ Len(R[a].specializations) = Len(R[b].specializations)
    /\ \A i \in DOMAIN R[a].specializations :
          /\ R[a].specializations[i].condition = R[b].specializations[i].condition
          /\ EqualByValue(R, R[a].specializations[i].schedule,
                          R[b].specializations[i].schedule)

C9_DeepCopySpecializations ==
    [][/\ \A h, h2 \in Handles :
            deep_copy(h, h2) /\ diag' = <<>> =>
                /\ EqualByValue(recs', contents[h], contents'[h2])
                /\ Tree(recs', contents'[h2]) \cap DOMAIN recs = {}
                /\ \A r \in DOMAIN recs : recs'[r] = recs[r]
       /\ \A h \in Handles, i \in 1 .. MaxSplits, f \in NewExprs :
            splits_set_factor(h, i, f) =>
                \A r \in DOMAIN recs \ {contents[h]} : recs'[r] = recs[r]
      ]_vars

\* S2 is a deep copy with a specialization that has a specialization.
C9_Witness ==
    /\ contents[2] \notin NestedRecords \cup StageRecords \cup {contents[1]}
    /\ \E i \in DOMAIN recs[contents[2]].specializations :
          recs[recs[contents[2]].specializations[i].schedule].specializations # <<>>

(***************************************************************************)
(* C2: after a deep copy, every wrapper entry of the source - of the       *)
(* record copied, of the nested records of its specializations and of the  *)
(* schedules of the stages reached through wrappers - has in the clone the *)
(* stage the map gives for the entry's stage, a stage that did not exist   *)
(* before; so two entries of one stage T share one clone, and the copy     *)
(* created exactly one stage per distinct stage reached.                   *)
(***************************************************************************)
RECURSIVE ClonePairs(_, _, _, _)
ClonePairs(R, F, a, b) ==
    {<<a, b>>}
    \cup UNION {ClonePairs(R, F, R[a].specializations[i].schedule,
                                 R[b].specializations[i].schedule) :
                   i \in DOMAIN R[a].specializations \cap DOMAIN R[b].specializations}
    \cup UNION {ClonePairs(R, F, F[R[a].wrappers[n]].schedule,
                                 F[R[b].wrappers[n]].schedule) :
                   n \in {m \in WrapperKeys : R[a].wrappers[m] # 0 /\ R[b].wrappers[m] # 0}}

C2_SharingPreserved ==
    [][\A h, h2 \in Handles :
          deep_copy(h, h2) /\ diag' = <<>> =>
              LET P == ClonePairs(recs', funcs', contents[h], contents'[h2])
                  reached == {recs'[p[1]].wrappers[n] : p \in P, n \in WrapperKeys} \ {0}
              IN
              /\ \A p \in P, n \in WrapperKeys :
                    LET T == recs'[p[1]].wrappers[n] IN
                    IF T = 0
                    THEN recs'[p[2]].wrappers[n] = 0
                    ELSE /\ recs'[p[2]].wrappers[n] = copied_map'[T]
                         /\ copied_map'[T] \in DOMAIN funcs' \ DOMAIN funcs
              /\ {T \in DOMAIN copied_map' : copied_map'[T] # 0} = reached
              /\ Len(funcs') - Len(funcs) = Cardinality(reached)
      ]_vars

\* S wraps a stage T at the top level and again in the nested record of a
\* specialization, and S2 is a deep copy in which both entries are the one
\* clone of T that the map records.
C2_Witness ==
    LET s == contents[1]
        c == contents[2]
    IN
    /\ c \notin NestedRecords \cup StageRecords \cup {s}
    /\ \E T \in InitialFuncs, n, m \in WrapperKeys :
          /\ recs[s].wrappers[n] = T
          /\ recs[s].specializations # <<>>
          /\ recs[recs[s].specializations[1].schedule].wrappers[m] = T
          /\ recs[c].specializations # <<>>
          /\ MapGet(copied_map, T) \notin InitialFuncs \cup {0}
          /\ recs[c].wrappers[n] = MapGet(copied_map, T)
          /\ recs[recs[c].specializations[1].schedule].wrappers[m] = MapGet(copied_map, T)

(***************************************************************************)
(* C10: deep_copy terminates on every stage graph, also one whose wrapper  *)
(* references form a cycle, and creates exactly one clone per distinct     *)
(* stage.                                                                  *)
(***************************************************************************)
C10_DeepCopyTerminates ==
    [][\A h, h2 \in Handles :
          deep_copy(h, h2) =>
              /\ diag' = <<>>
              /\ Len(funcs') - Len(funcs)
                     = Cardinality({T \in DOMAIN copied_map' : copied_map'[T] # 0})
      ]_vars

(***************************************************************************)
(* C6: mutate with the identity transform changes nothing; mutate with a   *)
(* transform that maps every expression to a sentinel leaves, in the       *)
(* record and in the nested records of its specializations at every depth, *)
(* each defined split factor, bound min, bound extent and specialization   *)
(* condition equal to the sentinel and each undefined one undefined, and   *)
(* changes nothing else of any record.                                     *)
(***************************************************************************)
ToSentinel(e) == IF defined(e) THEN Sentinel ELSE e

SentinelImage(c) ==
    [c EXCEPT
        !.splits = [i \in DOMAIN c.splits |->
                       [c.splits[i] EXCEPT !.factor = ToSentinel(@)]],
        !.bounds = [i \in DOMAIN c.bounds |->
                       [c.bounds[i] EXCEPT !.min = ToSentinel(@), !.extent = ToSentinel(@)]],
        !.specializations = [i \in DOMAIN c.specializations |->
                       [c.specializations[i] EXCEPT !.condition = ToSentinel(@)]]]

C6_TraversalCompleteness ==
    [][\A h \in Handles :
          /\ mutate(h, "identity") => recs' = recs /\ rdoms' = rdoms
          /\ mutate(h, "sentinel") =>
                \A r \in DOMAIN recs :
                    /\ Len(recs'[r].splits) = Len(recs[r].splits)
                    /\ Len(recs'[r].bounds) = Len(recs[r].bounds)
                    /\ Len(recs'[r].specializations) = Len(recs[r].specializations)
                    /\ recs'[r] = IF r \in Tree(recs, contents[h])
                                  THEN SentinelImage(recs[r])
                                  ELSE recs[r]
      ]_vars

\* A sentinel pass has reached the conditions of a specialization and of a
\* specialization nested in it, and a bound below them whose min is
\* undefined.
C6_Witness ==
    \E r \in DOMAIN recs : \E i \in DOMAIN recs[r].specializations :
        LET n == recs[r].specializations[i].schedule IN
        /\ recs[r].specializations[i].condition = Sentinel
        /\ \E j \in DOMAIN recs[n].specializations :
              LET nn == recs[n].specializations[j].schedule IN
              /\ recs[n].specializations[j].condition = Sentinel
              /\ recs[nn].bounds # <<>>
              /\ recs[nn].bounds[1].min = Undef
              /\ recs[nn].bounds[1].extent = Sentinel

(***************************************************************************)
(* C7: one mutate pass applies the transform exactly once to every         *)
(* expression of the schedule: with the transform e -> e + 1, each defined *)
(* split factor, bound min, bound extent and specialization condition of   *)
(* the record and of its nested records, and each reduction domain they    *)
(* hold, is one more than before.                                          *)
(***************************************************************************)
Incr(e) == IF defined(e) THEN (e + 1) % ExprMod ELSE e

IncrImage(c) ==
    [c EXCEPT
        !.splits = [i \in DOMAIN c.splits |->
                       [c.splits[i] EXCEPT !.factor = Incr(@)]],
        !.bounds = [i \in DOMAIN c.bounds |->
                       [c.bounds[i] EXCEPT !.min = Incr(@), !.extent = Incr(@)]],
        !.specializations = [i \in DOMAIN c.specializations |->
                       [c.specializations[i] EXCEPT !.condition = Incr(@)]]]

C7_TransformedExactlyOnce ==
    [][\A h \in Handles :
          mutate(h, "incr") =>
              /\ \A r \in DOMAIN recs :
                    recs'[r] = IF r \in Tree(recs, contents[h])
                               THEN IncrImage(recs[r])
                               ELSE recs[r]
              /\ \A d \in DOMAIN rdoms :
                    rdoms'[d].predicate =
                        IF d \in {recs[r].reduction_domain : r \in Tree(recs, contents[h])}
                        THEN Incr(rdoms[d].predicate)
                        ELSE rdoms[d].predicate
      ]_vars

(***************************************************************************)
(* C8: accept presents to the visitor exactly the expression fields that   *)
(* mutate transforms - the defined split factors, bound mins and extents   *)
(* and specialization conditions of the record and of its nested records   *)
(* at every depth, and the reduction domain - and skips undefined fields.  *)
(***************************************************************************)
Range(q) == {q[i] : i \in DOMAIN q}

C8_AcceptMatchesMutate ==
    [][\A h \in Handles, ub \in {"crash", "skip"} :
          accept(h, ub) =>
              /\ diag' = <<>>
              /\ Range(visited') =
                     Range(ScheduleContents_mutate(
                               [recs |-> recs, rdoms |-> rdoms, trace |-> <<>>],
                               contents[h], "identity").trace)
      ]_vars
====
